---- MODULE Spec2Model ----
(***************************************************************************)
(* A model of the user-level Click driver (userlevel/click.cc): router     *)
(* installation, the driver loop, hot-swapping of configurations through   *)
(* the hotconfig write handler, stop signals, and the read/exit handler    *)
(* calls made after the driver has run.                                    *)
(***************************************************************************)
EXTENDS Integers, Sequences, FiniteSets, TLC

\* ------------------------------------------------------------------------
\* Bounds of the model
\* ------------------------------------------------------------------------

\* number of Router objects one run may construct (initial one included)
MaxRouters == 3
\* number of SIGINT/SIGTERM deliveries in one run
MaxSignals == 2
\* number of runcount adjustments made by elements in one run
MaxAdjust == 1
\* length of the texts read functions return
MaxLen == 2

\* ------------------------------------------------------------------------
\* Program constants
\* ------------------------------------------------------------------------

\* Router::STOP_RUNCOUNT, the sentinel written by stop_signal_handler
STOP_RUNCOUNT == -2147483647

NoRouter == 0
RouterIds == 1..MaxRouters
Signals == {"SIGINT", "SIGTERM"}

VARIABLES
    mainpc,            \* position of main(): see MainPcs
    allow_reconfigure, \* main's local allow_reconfigure (-R)
    quit_immediately,  \* main's local quit_immediately (-q)
    nthreads,          \* static nthreads
    output_file,       \* main's local output_file (-o), <<>> if none
    warnings,          \* static bool warnings (-w clears it)
    hotconfig,         \* the root "hotconfig" write handler is registered
    routers,           \* every Router object constructed so far
    router,            \* static Router *router
    hotswap_router,    \* static Router *hotswap_router (the pending slot)
    started,           \* static bool started
    taskinit,          \* hotswap_task.initialize() has been called
    tasksched,         \* hotswap_task is scheduled
    hookpc,            \* position inside hotswap_hook
    hookact,           \* router activated by the running hotswap_hook
    wpc,               \* position inside hotconfig_handler
    wq,                \* hotconfig_handler's local q
    wret,              \* return value of the last finished hotconfig write
    sigdisp,           \* disposition of SIGINT and SIGTERM
    installs,          \* times parse_configuration installed the signal handlers
    delivered,         \* signals delivered so far, per signal
    stops,             \* signals handled as a graceful stop, per signal
    nadjust,           \* runcount adjustments so far
    exit_value,        \* main's exit_value / the process exit status
    handlers,          \* main's local handlers (the -h requests)
    exit_handler,      \* main's local exit_handler (-x), <<>> if none
    rvalue,            \* the text the elements' read functions return
    out,               \* what has been written to standard output
    errors,            \* the errors reported to errh
    calls,             \* the read functions called, in order
    warned,            \* the warnings reported to errh
    power,             \* SetTXPower::_power of a SetTXPower element
    txlog,             \* the calls made on that element: argument list, result
    graph,             \* an element graph: element classes and connections
    resolution,        \* the result of resolving its port disciplines
    ether              \* an EtherAddress object: how it was made, its _data

vars == <<mainpc, allow_reconfigure, quit_immediately, nthreads, output_file,
          warnings, power, txlog, graph, resolution, ether, hotconfig,
          routers, router, hotswap_router, started, taskinit, tasksched,
          hookpc, hookact, wpc, wq, wret, sigdisp, installs, delivered, stops,
          nadjust, exit_value, handlers, exit_handler, rvalue, out, errors,
          calls, warned>>

\* the options, and the state of the elements exercised on their own: the
\* steps of the driver after the options are parsed leave them alone
cfgvars == <<allow_reconfigure, quit_immediately, nthreads, output_file,
             warnings, power, txlog, graph, resolution, ether,
             hotconfig>>
sigvars == <<sigdisp, installs, delivered, stops>>
hcallvars == <<handlers, exit_handler, rvalue, out, errors, calls, warned>>
wvars == <<wpc, wq, wret>>

MainPcs == {"parse", "output", "run", "driver", "handlers", "exithandler", "exit",
            "exited", "killed", "crashed"}
\* the process is gone: returned from main / exit(), killed by a signal's
\* default action, or crashed on an invalid pointer
Ended == mainpc \in {"exited", "killed", "crashed"}

\* ------------------------------------------------------------------------
\* Router objects
\* ------------------------------------------------------------------------

NewRouter == [created |-> FALSE, initialized |-> FALSE, activated |-> FALSE,
              deleted |-> FALSE, uses |-> 0, runcount |-> 0,
              hotswap |-> NoRouter, nelements |-> 0]

Fresh == {r \in RouterIds : ~routers[r].created}
\* the Router the next construction yields
NextId == CHOOSE r \in Fresh : \A s \in Fresh : r <= s

\* a pointer to a Router that has been deleted
Dangling(rs, p) == p # NoRouter /\ rs[p].deleted

\* Router::use()
RouterUse(rs, r) == [rs EXCEPT ![r].uses = @ + 1]

\* Router::unuse(): the use count is decremented; the router is torn down
\* (its elements cleaned up, the object deleted) when the count is zero
RouterUnuse(rs, r) ==
    [rs EXCEPT ![r].uses = @ - 1,
               ![r].deleted = @ \/ (rs[r].uses - 1 = 0)]

\* Router::activate(): publish the router under the master
RouterActivate(rs, r) == [rs EXCEPT ![r].activated = TRUE]

\* Router::set_runcount()
RouterSetRuncount(rs, r, v) == [rs EXCEPT ![r].runcount = v]

\* the routers whose tasks the master's threads run
Running(rs) == {r \in RouterIds : rs[r].activated /\ ~rs[r].deleted}

\* a driver thread stays in its loop while some running router has a
\* positive runcount
DriverMayRun(rs) == \E r \in Running(rs) : rs[r].runcount > 0


\* ------------------------------------------------------------------------
\* Signals
\* ------------------------------------------------------------------------

\* click_signal(sig, stop_signal_handler, true) on SIGINT and SIGTERM:
\* the handler is installed with its disposition reset when it is entered
InstalledDisp == [s \in Signals |-> "handler"]

\* handlers installed without the reset
ResetDisp_Keep(d, sig) == d

\* stop_signal_handler's first statement / the resethand installation:
\* the signal's disposition is the default again once the handler has run
ResetDisp(d, sig) == [d EXCEPT ![sig] = "default"]

\* ------------------------------------------------------------------------
\* Strings, elements and handlers
\* ------------------------------------------------------------------------

\* A String is a sequence of characters.
NL == "\n"
Last(s) == s[Len(s)]

\* the index of the first c in s, or 0
RECURSIVE FindFrom(_, _, _)
FindFrom(s, c, i) ==
    IF i > Len(s) THEN 0
    ELSE IF s[i] = c THEN i
    ELSE FindFrom(s, c, i + 1)
Find(s, c) == FindFrom(s, c, 1)

\* an error reported to errh: the kind of message and the name in it
ErrorMsg(kind, name) == [kind |-> kind, name |-> name]

\* Handler flags: read_visible, write_visible, raw
Handler(n, r, w, raw) == [name |-> n, read |-> r, write |-> w, raw |-> raw]
NoHandler == [name |-> <<>>, read |-> FALSE, write |-> FALSE, raw |-> FALSE]

\* the elements of a configuration with elements, by element index, each
\* with its name, its class and its handler table
Elements ==
    << [name |-> <<"x">>, class |-> <<"C">>,
        hs |-> { Handler(<<"v","a","l","u","e">>, TRUE, FALSE, FALSE),
                 Handler(<<"r","e","s","e","t">>, FALSE, TRUE, FALSE),
                 Handler(<<"r","a","w">>, TRUE, FALSE, TRUE),
                 Handler(<<"h","i","d">>, FALSE, FALSE, FALSE) }],
       [name |-> <<"y">>, class |-> <<"C">>,
        hs |-> { Handler(<<"v","a","l","u","e">>, TRUE, TRUE, FALSE),
                 Handler(<<"r","a","w">>, FALSE, TRUE, TRUE) }],
       [name |-> <<"q","1">>, class |-> <<"Q">>,
        hs |-> { Handler(<<"r","a","w">>, TRUE, FALSE, TRUE) }] >>

\* Router::nelements() of the configurations the model installs
NElements == {0, Len(Elements)}

\* the root element stands for the router itself
RootElement == 0

\* the handlers of the root element; "hotconfig" is there when main added it
RootHandlers ==
    { Handler(<<"c","o","n","f","i","g">>, TRUE, FALSE, FALSE) }
    \cup (IF hotconfig
          THEN { Handler(<<"h","o","t","c","o","n","f","i","g">>,
                         FALSE, TRUE, TRUE) }
          ELSE {})

\* Router::element(i), Router::ename(i) of the current router
NElementsOf(r) == IF r = NoRouter THEN 0 ELSE routers[r].nelements
ElementIndexes == 1..NElementsOf(router)

\* Router::handler(e, name): the handler, or NoHandler for a null pointer
RouterHandler(e, hname) ==
    LET hs == IF e = RootElement THEN RootHandlers ELSE Elements[e].hs
        found == {h \in hs : h.name = hname}
    IN IF found = {} THEN NoHandler ELSE CHOOSE h \in found : TRUE

HandlerVisible(h) == h.read \/ h.write

\* Handler::unparse_name(e, name)
UnparseName(e, hname) ==
    IF e = RootElement THEN hname ELSE Elements[e].name \o <<".">> \o hname

\* Router::find(name): the element of that name, or RootElement - 1 (null)
NoElement == -1
RouterFind(name) ==
    LET found == {i \in ElementIndexes : Elements[i].name = name}
    IN IF found = {} THEN NoElement ELSE CHOOSE i \in found : TRUE

\* Element::cast(name): the element is of the named class
ElementCast(i, name) == Elements[i].class = name

\* glob_match(s, pattern) with '?', '*' and '[...]'
RECURSIVE GlobMatch(_, _)
GlobMatch(str, pat) ==
    IF pat = <<>> THEN str = <<>>
    ELSE IF Head(pat) = "*"
         THEN GlobMatch(str, Tail(pat))
              \/ (str # <<>> /\ GlobMatch(Tail(str), pat))
    ELSE IF str = <<>> THEN FALSE
    ELSE IF Head(pat) = "?" THEN GlobMatch(Tail(str), Tail(pat))
    ELSE IF Head(pat) = "["
         THEN LET close == Find(pat, "]")
              IN /\ close > 0
                 /\ \E k \in 2..(close - 1) : pat[k] = Head(str)
                 /\ GlobMatch(Tail(str), SubSeq(pat, close + 1, Len(pat)))
    ELSE Head(pat) = Head(str) /\ GlobMatch(Tail(str), Tail(pat))


\* ------------------------------------------------------------------------
\* parse_configuration
\* ------------------------------------------------------------------------

\* what click_read_router and Router::initialize can make of a text
ParseOutcomes == {"unreadable", "error", "ok"}

\* a parse_configuration that installs the signal handlers every time
ParseInstallsSignals_Always(hotswap, outcome) ==
    outcome # "unreadable"

\* "catch signals (only need to do the first time)"
ParseInstallsSignals(hotswap, outcome) ==
    ~hotswap /\ outcome # "unreadable"

\* "register hotswap router on new router"
ParseHotswapRouter(rs, cur, hotswap) ==
    IF hotswap /\ cur # NoRouter /\ rs[cur].initialized THEN cur ELSE NoRouter

\* the Router objects after parse_configuration(text, _, hotswap, errh)
ParsedRouters(rs, cur, hotswap, outcome, nel) ==
    IF outcome = "unreadable" THEN rs
    ELSE [rs EXCEPT ![NextId] =
            [created |-> TRUE,
             initialized |-> (outcome = "ok"),
             activated |-> FALSE,
             deleted |-> (outcome # "ok"),
             uses |-> 0,
             runcount |-> IF outcome = "ok" THEN 1 ELSE 0,
             hotswap |-> ParseHotswapRouter(rs, cur, hotswap),
             nelements |-> nel]]

\* a parse_configuration that returns the router without looking at the
\* errors or at the result of initialize
ParseReturn_Unchecked(outcome) ==
    IF outcome # "unreadable" THEN NextId ELSE NoRouter

\* parse_configuration's return value
ParseReturn(outcome) == IF outcome = "ok" THEN NextId ELSE NoRouter

\* the effect of parse_configuration on the process's signal handling
ParseSignals(hotswap, outcome) ==
    IF ParseInstallsSignals(hotswap, outcome)
    THEN /\ sigdisp' = InstalledDisp
         /\ installs' = installs + 1
    ELSE UNCHANGED <<sigdisp, installs>>


\* ------------------------------------------------------------------------
\* Invalid pointers
\* ------------------------------------------------------------------------

\* the process dies on an invalid pointer
Crash ==
    /\ mainpc' = "crashed"
    /\ UNCHANGED <<allow_reconfigure, quit_immediately, nthreads, output_file,
                   warnings, power, txlog, graph, resolution, ether, hotconfig,
                   routers, router, hotswap_router, started, taskinit,
                   tasksched, hookpc, hookact, wpc, wq, wret, sigdisp,
                   installs, stops, nadjust, exit_value, handlers,
                   exit_handler, rvalue, out, errors, calls, warned>>

\* A statement that dereferences Router pointer p and otherwise does Effect.
\* A null p crashes; a dangling p is undefined behaviour, which either
\* crashes or goes on with the memory of the deleted object.
DerefSig(p, Effect) ==
    \/ /\ p = NoRouter
       /\ Crash
    \/ /\ Dangling(routers, p)
       /\ Crash
    \/ /\ p # NoRouter
       /\ Effect

\* the same in code that is not a signal handler
Deref(p, Effect) ==
    \/ /\ p = NoRouter \/ Dangling(routers, p)
       /\ Crash
       /\ UNCHANGED delivered
    \/ /\ p # NoRouter
       /\ Effect

\* ------------------------------------------------------------------------
\* main, up to the driver loop
\* ------------------------------------------------------------------------

\* a main that always provides the hotconfig handler
MainAddsHotconfig_Always == TRUE

\* main: "provide hotconfig handler if asked"
MainAddsHotconfig == allow_reconfigure

\* main: "provide hotconfig handler if asked", "parse configuration"
MainParse ==
    /\ mainpc = "parse"
    /\ \E outcome \in ParseOutcomes, nel \in NElements :
        /\ hotconfig' = MainAddsHotconfig
        /\ ParseSignals(FALSE, outcome)
        /\ IF ParseReturn(outcome) = NoRouter
           THEN /\ routers' = ParsedRouters(routers, router, FALSE, outcome, nel)
                /\ router' = NoRouter
                /\ mainpc' = "exited"
                /\ exit_value' = 1
           ELSE /\ routers' = RouterUse(
                       ParsedRouters(routers, router, FALSE, outcome, nel),
                       ParseReturn(outcome))
                /\ router' = ParseReturn(outcome)
                /\ mainpc' = "output"
                /\ exit_value' = 0
    /\ UNCHANGED <<allow_reconfigure, quit_immediately, nthreads, output_file,
                   warnings, power, txlog, graph, resolution, ether,
                   hotswap_router, started, taskinit, tasksched, hookpc,
                   hookact, wpc, wq, wret, delivered, stops, nadjust, handlers,
                   exit_handler, rvalue, out, errors, calls, warned>>

\* the name "-" of standard output, and the text the root element's
\* flatconfig read handler returns
StdoutName == <<"-">>
FlatConfig == <<"f">>

\* main: "output flat configuration"; fopen may fail
MainOutput ==
    /\ mainpc = "output"
    /\ \E fopen_ok \in BOOLEAN :
         IF output_file = <<>>
         THEN UNCHANGED <<exit_value, errors, out>>
         ELSE IF output_file # StdoutName /\ ~fopen_ok
         THEN /\ errors' = Append(errors, ErrorMsg("fopen", output_file))
              /\ exit_value' = 1
              /\ UNCHANGED out
         ELSE /\ out' = IF output_file = StdoutName
                        THEN out \o FlatConfig ELSE out
              /\ UNCHANGED <<exit_value, errors>>
    /\ mainpc' = "run"
    /\ UNCHANGED <<routers, router, hotswap_router, started, taskinit,
                   tasksched, hookpc, hookact, nadjust, handlers,
                   exit_handler, rvalue, calls, warned>>
    /\ UNCHANGED <<cfgvars, sigvars, wvars>>

\* a main that runs the driver in quit mode too
MainRunsDriver_IgnoresQuit == routers[router].nelements > 0

\* main: "run driver" decides whether the driver runs at all
MainRunsDriver == ~quit_immediately /\ routers[router].nelements > 0

\* main: "run driver": the warning of the else branch
MainWarnsEmpty == ~quit_immediately /\ warnings

\* main: "run driver", up to the call of RouterThread::driver()
MainRun ==
    /\ mainpc = "run"
    /\ IF MainRunsDriver
       THEN /\ started' = TRUE
            /\ routers' = RouterActivate(routers, router)
            /\ taskinit' = allow_reconfigure
            /\ mainpc' = "driver"
            /\ UNCHANGED warned
       ELSE /\ mainpc' = "handlers"
            /\ warned' = IF MainWarnsEmpty
                         THEN Append(warned, "configuration has no elements")
                         ELSE warned
            /\ UNCHANGED <<started, routers, taskinit>>
    /\ UNCHANGED <<allow_reconfigure, quit_immediately, nthreads, output_file,
                   warnings, power, txlog, graph, resolution, ether, hotconfig,
                   router, hotswap_router, tasksched, hookpc, hookact, wpc,
                   wq, wret, sigdisp, installs, delivered, stops, nadjust,
                   exit_value, handlers, exit_handler, rvalue, out, errors,
                   calls>>

\* ------------------------------------------------------------------------
\* The driver loop
\* ------------------------------------------------------------------------

\* an element of a running router asks the driver to stop
\* (Router::adjust_runcount(-1))
ElementStop ==
    /\ mainpc = "driver"
    /\ nadjust < MaxAdjust
    /\ \E r \in Running(routers) :
        /\ routers[r].runcount > 0
        /\ routers' = RouterSetRuncount(routers, r, routers[r].runcount - 1)
    /\ nadjust' = nadjust + 1
    /\ UNCHANGED <<mainpc, allow_reconfigure, quit_immediately, nthreads, output_file,
                   warnings, power, txlog, graph, resolution, ether,
                   hotconfig, router, hotswap_router, started, taskinit,
                   tasksched, hookpc, hookact, wpc, wq, wret, sigdisp,
                   installs, delivered, stops, exit_value, handlers,
                   exit_handler, rvalue, out, errors, calls, warned>>

\* with one thread a handler call and a task run on the same thread, one
\* after the other; with more threads they run on different threads
Serialized == nthreads = 1

\* RouterThread::driver() returns to main: between two tasks the thread
\* finds no running router with a positive runcount
DriverExit ==
    /\ mainpc = "driver"
    /\ hookpc = "idle"
    /\ Serialized => wpc = "idle"
    /\ ~DriverMayRun(routers)
    /\ mainpc' = "handlers"
    /\ UNCHANGED <<allow_reconfigure, quit_immediately, nthreads, output_file,
                   warnings, power, txlog, graph, resolution, ether, hotconfig,
                   routers, router, hotswap_router, started, taskinit,
                   tasksched, hookpc, hookact, wpc, wq, wret, sigdisp,
                   installs, delivered, stops, nadjust, exit_value, handlers,
                   exit_handler, rvalue, out, errors, calls, warned>>


\* ------------------------------------------------------------------------
\* hotswap_hook, the callback of hotswap_task
\* ------------------------------------------------------------------------

\* the driver thread picks the scheduled task and runs its hook:
\* hotswap_router->activate(ErrorHandler::default_handler());
HookActivate ==
    /\ mainpc = "driver"
    /\ taskinit /\ tasksched
    /\ hookpc = "idle"
    /\ Serialized => wpc = "idle"
    /\ Deref(hotswap_router,
         /\ routers' = RouterActivate(routers, hotswap_router)
         /\ hookact' = hotswap_router
         /\ tasksched' = FALSE
         /\ hookpc' = "unuse"
         /\ UNCHANGED <<mainpc, router, hotswap_router, started, taskinit,
                        nadjust, exit_value>>
         /\ UNCHANGED <<cfgvars, sigvars, hcallvars, wvars>>)

\* router->unuse();
HookUnuse ==
    /\ hookpc = "unuse"
    /\ ~Ended
    /\ Deref(router,
         /\ routers' = RouterUnuse(routers, router)
         /\ hookpc' = "assign"
         /\ UNCHANGED <<mainpc, router, hotswap_router, started, taskinit,
                        tasksched, hookact, nadjust, exit_value>>
         /\ UNCHANGED <<cfgvars, sigvars, hcallvars, wvars>>)

\* router = hotswap_router;
HookAssign ==
    /\ hookpc = "assign"
    /\ ~Ended
    /\ router' = hotswap_router
    /\ hookpc' = "use"
    /\ UNCHANGED <<mainpc, routers, hotswap_router, started, taskinit,
                   tasksched, hookact, nadjust, exit_value>>
    /\ UNCHANGED <<cfgvars, sigvars, hcallvars, wvars>>

\* router->use();
HookUse ==
    /\ hookpc = "use"
    /\ ~Ended
    /\ Deref(router,
         /\ routers' = RouterUse(routers, router)
         /\ hookpc' = "clear"
         /\ UNCHANGED <<mainpc, router, hotswap_router, started, taskinit,
                        tasksched, hookact, nadjust, exit_value>>
         /\ UNCHANGED <<cfgvars, sigvars, hcallvars, wvars>>)

\* hotswap_router = 0; return true;
HookClear ==
    /\ hookpc = "clear"
    /\ ~Ended
    /\ hotswap_router' = NoRouter
    /\ hookact' = NoRouter
    /\ hookpc' = "idle"
    /\ UNCHANGED <<mainpc, routers, router, started, taskinit, tasksched,
                   nadjust, exit_value>>
    /\ UNCHANGED <<cfgvars, sigvars, hcallvars, wvars>>

\* ------------------------------------------------------------------------
\* hotconfig_handler, the root "hotconfig" write handler
\* ------------------------------------------------------------------------

\* a hotconfig_handler that reschedules the task whatever the parse gave
HotconfigReject_Resched ==
    /\ wret' = "-EINVAL"
    /\ tasksched' = TRUE
    /\ UNCHANGED <<wpc, wq, hotswap_router>>

\* hotconfig_handler when parse_configuration returned 0:
\*   return -EINVAL;
HotconfigReject ==
    /\ wret' = "-EINVAL"
    /\ UNCHANGED <<wpc, wq, hotswap_router, tasksched>>

\* if (Router *q = parse_configuration(text, true, true, errh)) ... else
\*   return -EINVAL;
\* parse_configuration reads router->master() and router->initialized()
WriteParse ==
    /\ hotconfig
    /\ mainpc = "driver"
    /\ wpc = "idle"
    /\ Serialized => hookpc = "idle"
    /\ Fresh # {}
    /\ Deref(router,
         \E outcome \in ParseOutcomes, nel \in NElements :
           /\ routers' = ParsedRouters(routers, router, TRUE, outcome, nel)
           /\ ParseSignals(TRUE, outcome)
           /\ IF ParseReturn(outcome) = NoRouter
              THEN HotconfigReject
              ELSE /\ wq' = ParseReturn(outcome)
                   /\ wpc' = "unuse"
                   /\ wret' = "running"
                   /\ UNCHANGED <<hotswap_router, tasksched>>
           /\ UNCHANGED <<mainpc, router, started, taskinit,
                          hookpc, hookact, delivered, stops,
                          nadjust, exit_value>>
           /\ UNCHANGED <<cfgvars, hcallvars>>)

\* if (hotswap_router) hotswap_router->unuse();
WriteUnuse ==
    /\ wpc = "unuse"
    /\ ~Ended
    /\ \/ /\ hotswap_router = NoRouter
          /\ wpc' = "assign"
          /\ UNCHANGED <<mainpc, routers, router, hotswap_router, started,
                         taskinit, tasksched, hookpc, hookact, wq, wret,
                         nadjust, exit_value>>
          /\ UNCHANGED <<cfgvars, sigvars, hcallvars>>
       \/ /\ hotswap_router # NoRouter
          /\ Deref(hotswap_router,
               /\ routers' = RouterUnuse(routers, hotswap_router)
               /\ wpc' = "assign"
               /\ UNCHANGED <<mainpc, router, hotswap_router, started,
                              taskinit, tasksched, hookpc, hookact, wq, wret,
                              nadjust, exit_value>>
               /\ UNCHANGED <<cfgvars, sigvars, hcallvars>>)

\* hotswap_router = q;
WriteAssign ==
    /\ wpc = "assign"
    /\ ~Ended
    /\ hotswap_router' = wq
    /\ wpc' = "resched"
    /\ UNCHANGED <<mainpc, routers, router, started, taskinit, tasksched,
                   hookpc, hookact, wq, wret, nadjust, exit_value>>
    /\ UNCHANGED <<cfgvars, sigvars, hcallvars>>

\* hotswap_task.reschedule(); return 0;
WriteResched ==
    /\ wpc = "resched"
    /\ ~Ended
    /\ tasksched' = TRUE
    /\ wpc' = "idle"
    /\ wq' = NoRouter
    /\ wret' = "0"
    /\ UNCHANGED <<mainpc, routers, router, hotswap_router, started,
                   taskinit, hookpc, hookact, nadjust, exit_value>>
    /\ UNCHANGED <<cfgvars, sigvars, hcallvars>>

\* ------------------------------------------------------------------------
\* stop_signal_handler
\* ------------------------------------------------------------------------

\* the process is killed by the default action of a signal
Killed ==
    /\ mainpc' = "killed"
    /\ UNCHANGED <<routers, router, hotswap_router, started, taskinit,
                   tasksched, hookpc, hookact, nadjust, exit_value>>
    /\ UNCHANGED <<cfgvars, sigdisp, installs, stops, hcallvars, wvars>>

\* stop_signal_handler(sig), entered with the disposition of sig reset:
\*   if (!started) kill(getpid(), sig);
\*   else router->set_runcount(Router::STOP_RUNCOUNT);
StopSignalHandler(sig) ==
    IF ~started
    THEN Killed
    ELSE DerefSig(router,
           /\ routers' = RouterSetRuncount(routers, router, STOP_RUNCOUNT)
           /\ sigdisp' = ResetDisp(sigdisp, sig)
           /\ stops' = [stops EXCEPT ![sig] = @ + 1]
           /\ UNCHANGED <<mainpc, router, hotswap_router, started, taskinit,
                          tasksched, hookpc, hookact, nadjust, exit_value,
                          installs>>
           /\ UNCHANGED <<cfgvars, hcallvars, wvars>>)

NDelivered == delivered["SIGINT"] + delivered["SIGTERM"]

\* SIGINT or SIGTERM is delivered to the process
Signal ==
    /\ ~Ended
    /\ NDelivered < MaxSignals
    /\ \E sig \in Signals :
         /\ delivered' = [delivered EXCEPT ![sig] = @ + 1]
         /\ IF sigdisp[sig] = "default"
            THEN Killed
            ELSE StopSignalHandler(sig)


\* ------------------------------------------------------------------------
\* Calling read handlers
\* ------------------------------------------------------------------------

\* The running result of the handler calls: standard output, the errors
\* reported to errh, and the read functions called.

\* a call_read_handler that adds the newline to every non-raw result
PrintedResult_AlwaysNewline(rh, result) ==
    IF ~rh.raw THEN result \o <<NL>> ELSE result

\* the text call_read_handler writes for a handler's result:
\*   if (!rh->raw() && result && result.back() != '\n') result += '\n';
PrintedResult(rh, result) ==
    IF ~rh.raw /\ result # <<>> /\ Last(result) # NL
    THEN result \o <<NL>>
    ELSE result

\* a call_read_handler that only checks that the handler exists
ReadHandlerError_ExistsOnly(rh) ==
    IF rh = NoHandler THEN "no handler" ELSE ""

\* call_read_handler's checks before the handler is called: the error it
\* reports, or "" if the handler is called
ReadHandlerError(rh) ==
    IF rh = NoHandler \/ ~HandlerVisible(rh) THEN "no handler"
    ELSE IF ~rh.read THEN "write handler"
    ELSE ""

\* call_read_handler(e, handler_name, print_name, errh)
CallReadHandler(st, e, hname, print_name) ==
    LET rh == RouterHandler(e, hname)
        full_name == UnparseName(e, hname)
    IN IF ReadHandlerError(rh) # ""
       THEN [st EXCEPT !.errors = Append(@, ErrorMsg(ReadHandlerError(rh),
                                                      full_name))]
       ELSE [st EXCEPT
               !.out = @ \o (IF print_name THEN full_name \o <<":", NL>>
                             ELSE <<>>)
                         \o PrintedResult(rh, rvalue)
                         \o (IF print_name THEN <<NL>> ELSE <<>>),
               !.calls = Append(@, <<e, hname>>)]

\* an expand_handler_elements that takes only '*' for a wildcard
IsPattern_StarOnly(pattern) ==
    \E k \in 1..Len(pattern) : pattern[k] = "*"

\* expand_handler_elements: "check if we have a pattern"
IsPattern(pattern) ==
    \E k \in 1..Len(pattern) : pattern[k] \in {"?", "*", "["}

\* expand_handler_elements: "check pattern or type"
ElementMatches(i, pattern) ==
    IF IsPattern(pattern)
    THEN GlobMatch(Elements[i].name, pattern)
    ELSE ElementCast(i, pattern)

\* the elements expand_handler_elements appends, in element-index order
RECURSIVE ExpandFrom(_, _, _)
ExpandFrom(i, pattern, hname) ==
    IF i > NElementsOf(router) THEN <<>>
    ELSE (IF ElementMatches(i, pattern) /\ RouterHandler(i, hname).read
          THEN <<i>> ELSE <<>>)
         \o ExpandFrom(i + 1, pattern, hname)

\* expand_handler_elements(pattern, handler_name, elements, router):
\* the return value, the elements found and the error reported (or none)
ExpandHandlerElements(pattern, hname) ==
    IF RouterFind(pattern) # NoElement
    THEN [retval |-> 1, elements |-> <<RouterFind(pattern)>>, error |-> <<>>]
    ELSE IF \E i \in ElementIndexes : ElementMatches(i, pattern)
    THEN [retval |-> 2, elements |-> ExpandFrom(1, pattern, hname),
          error |-> <<>>]
    ELSE [retval |-> -1, elements |-> <<>>,
          error |-> <<ErrorMsg(IF IsPattern(pattern)
                               THEN "no element matching" ELSE "no element",
                               pattern)>>]

\* call_read_handlers: the inner loop over the expanded elements
RECURSIVE CallEach(_, _, _, _, _)
CallEach(st, elements, j, hname, print_name) ==
    IF j > Len(elements) THEN st
    ELSE CallEach(CallReadHandler(st, elements[j], hname, print_name),
                  elements, j + 1, hname, print_name)

\* call_read_handlers: one iteration of "expand handler names"
CallRequest(st, req, print_names) ==
    LET dot == Find(req, ".")
        element_name == SubSeq(req, 1, dot - 1)
        handler_name == SubSeq(req, dot + 1, Len(req))
        x == ExpandHandlerElements(element_name, handler_name)
    IN IF dot = 0
       THEN CallReadHandler(st, RootElement, req, print_names)
       ELSE IF x.retval >= 0
       THEN CallEach(st, x.elements, 1, handler_name,
                     print_names \/ x.retval > 1)
       ELSE [st EXCEPT !.errors = @ \o x.error]

RECURSIVE CallRequests(_, _, _)
CallRequests(st, hs, i) ==
    IF i > Len(hs) THEN st
    ELSE CallRequests(CallRequest(st, hs[i], Len(hs) > 1), hs, i + 1)

\* call_read_handlers(handlers, errh): the state after it and its result
CallReadHandlers(st, hs) == CallRequests(st, hs, 1)
CallReadHandlersResult(st, hs) ==
    IF Len(CallReadHandlers(st, hs).errors) = Len(st.errors) THEN 0 ELSE -1

HState == [out |-> out, errors |-> errors, calls |-> calls]

\* main: "call handlers"
MainHandlers ==
    /\ mainpc = "handlers"
    /\ IF handlers # <<>>
       THEN Deref(router,
              /\ out' = CallReadHandlers(HState, handlers).out
              /\ errors' = CallReadHandlers(HState, handlers).errors
              /\ calls' = CallReadHandlers(HState, handlers).calls
              /\ exit_value' =
                   IF CallReadHandlersResult(HState, handlers) < 0
                   THEN 1 ELSE exit_value
              /\ mainpc' = "exithandler"
              /\ UNCHANGED <<routers, router, hotswap_router, started,
                             taskinit, tasksched, hookpc, hookact, nadjust,
                             handlers, exit_handler, rvalue, warned>>
              /\ UNCHANGED <<cfgvars, sigvars, wvars>>)
       ELSE /\ mainpc' = "exithandler"
            /\ UNCHANGED <<routers, router, hotswap_router, started,
                           taskinit, tasksched, hookpc, hookact, nadjust,
                           exit_value>>
            /\ UNCHANGED <<cfgvars, sigvars, wvars, hcallvars>>


\* ------------------------------------------------------------------------
\* The exit handler and the end of main
\* ------------------------------------------------------------------------

Whitespace == {" ", NL, "\t", "\r"}

\* cp_uncomment(s) on a text without comments: the text without the
\* whitespace around it
RECURSIVE StripLeft(_)
StripLeft(s) ==
    IF s # <<>> /\ Head(s) \in Whitespace THEN StripLeft(Tail(s)) ELSE s
RECURSIVE StripRight(_)
StripRight(s) ==
    IF s # <<>> /\ Last(s) \in Whitespace
    THEN StripRight(SubSeq(s, 1, Len(s) - 1)) ELSE s
CpUncomment(s) == StripRight(StripLeft(s))

DigitChars == <<"0", "1", "2", "3", "4", "5", "6", "7", "8", "9">>
IsDigit(c) == \E d \in 1..10 : DigitChars[d] = c
DigitValue(c) == (CHOOSE d \in 1..10 : DigitChars[d] = c) - 1

RECURSIVE DecimalValue(_, _)
DecimalValue(s, acc) ==
    IF s = <<>> THEN acc
    ELSE DecimalValue(Tail(s), 10 * acc + DigitValue(Head(s)))

\* cp_integer(s, &v): an optional sign and decimal digits, nothing else
CpInteger(s) ==
    LET signed == s # <<>> /\ Head(s) \in {"-", "+"}
        digits == IF signed THEN Tail(s) ELSE s
        ok == digits # <<>> /\ \A k \in 1..Len(digits) : IsDigit(digits[k])
    IN [ok |-> ok,
        value |-> IF ~ok THEN 0
                  ELSE IF signed /\ Head(s) = "-"
                  THEN 0 - DecimalValue(digits, 0)
                  ELSE DecimalValue(digits, 0)]

TrueWords == { <<"1">>, <<"t","r","u","e">>, <<"y","e","s">> }
FalseWords == { <<"0">>, <<"f","a","l","s","e">>, <<"n","o">> }

\* cp_bool(s, &b)
CpBool(s) == [ok |-> s \in TrueWords \cup FalseWords, value |-> s \in TrueWords]

\* HandlerCall::call_read(exit_handler, router->root_element(), errh):
\* the text read, and the errors reported instead
HandlerCallRead(req) ==
    LET dot == Find(req, ".")
        ename == SubSeq(req, 1, dot - 1)
        hname == IF dot = 0 THEN req ELSE SubSeq(req, dot + 1, Len(req))
        e == IF dot = 0 THEN RootElement ELSE RouterFind(ename)
    IN IF e = NoElement
       THEN [text |-> <<>>, error |-> <<ErrorMsg("no element", ename)>>]
       ELSE IF ~RouterHandler(e, hname).read
       THEN [text |-> <<>>,
             error |-> <<ErrorMsg("no read handler", UnparseName(e, hname))>>]
       ELSE [text |-> rvalue, error |-> <<>>]

\* an exit handler step that tries cp_bool before cp_integer
ExitHandlerValue_BoolFirst(req) ==
    LET r == HandlerCallRead(req)
        text == CpUncomment(r.text)
    IN IF r.error # <<>> THEN -1
       ELSE IF CpBool(text).ok THEN (IF CpBool(text).value THEN 0 ELSE 1)
       ELSE IF CpInteger(text).ok THEN CpInteger(text).value
       ELSE -1

\* an exit handler step that leaves an exit_value of 1 alone
ExitHandlerValue_KeepsError(req) ==
    LET r == HandlerCallRead(req)
        text == CpUncomment(r.text)
    IN IF exit_value = 1 THEN 1
       ELSE IF r.error # <<>> THEN -1
       ELSE IF CpInteger(text).ok THEN CpInteger(text).value
       ELSE IF CpBool(text).ok THEN (IF CpBool(text).value THEN 0 ELSE 1)
       ELSE -1

\* main: "call exit handler": the new exit_value
ExitHandlerValue(req) ==
    LET r == HandlerCallRead(req)
        text == CpUncomment(r.text)
    IN IF r.error # <<>> THEN -1
       ELSE IF CpInteger(text).ok THEN CpInteger(text).value
       ELSE IF CpBool(text).ok THEN (IF CpBool(text).value THEN 0 ELSE 1)
       ELSE -1

\* main: "call exit handler": the errors reported
ExitHandlerErrors(req) ==
    LET r == HandlerCallRead(req)
        text == CpUncomment(r.text)
    IN IF r.error # <<>> THEN r.error
       ELSE IF CpInteger(text).ok \/ CpBool(text).ok THEN <<>>
       ELSE <<ErrorMsg("exit handler value should be integer", req)>>

\* main: "call exit handler"
MainExitHandler ==
    /\ mainpc = "exithandler"
    /\ IF exit_handler # <<>>
       THEN Deref(router,
              /\ exit_value' = ExitHandlerValue(exit_handler)
              /\ errors' = errors \o ExitHandlerErrors(exit_handler)
              /\ calls' = IF HandlerCallRead(exit_handler).error = <<>>
                          THEN Append(calls, <<"exit", exit_handler>>)
                          ELSE calls
              /\ mainpc' = "exit"
              /\ UNCHANGED <<routers, router, hotswap_router, started,
                             taskinit, tasksched, hookpc, hookact, nadjust,
                             handlers, exit_handler, rvalue, out, warned>>
              /\ UNCHANGED <<cfgvars, sigvars, wvars>>)
       ELSE /\ mainpc' = "exit"
            /\ UNCHANGED <<routers, router, hotswap_router, started,
                           taskinit, tasksched, hookpc, hookact, nadjust,
                           exit_value>>
            /\ UNCHANGED <<cfgvars, sigvars, wvars, hcallvars>>

\* main: router->unuse(); delete master; ... return exit_value;
MainExit ==
    /\ mainpc = "exit"
    /\ Deref(router,
         /\ routers' = RouterUnuse(routers, router)
         /\ mainpc' = "exited"
         /\ UNCHANGED <<router, hotswap_router, started, taskinit,
                        tasksched, hookpc, hookact, nadjust, exit_value>>
         /\ UNCHANGED <<cfgvars, sigvars, wvars, hcallvars>>)


\* ------------------------------------------------------------------------
\* SetTXPower (elements/wifi/settxpower.cc)
\* ------------------------------------------------------------------------

\* number of calls made on the element in one run
MaxOps == 3
\* largest value the uninitialized _power of a new element is taken to hold
MaxGarbage == 2

\* cp_unsigned(s, &v): decimal digits, nothing else
CpUnsigned(s) ==
    LET ok == s # <<>> /\ \A k \in 1..Len(s) : IsDigit(s[k])
    IN [ok |-> ok, value |-> IF ok THEN DecimalValue(s, 0) ELSE 0]

\* the keyword and the value of one configuration argument "KEYWORD value"
ArgKeyword(arg) ==
    IF Find(arg, " ") = 0 THEN <<>> ELSE SubSeq(arg, 1, Find(arg, " ") - 1)
ArgValue(arg) ==
    IF Find(arg, " ") = 0 THEN arg
    ELSE SubSeq(arg, Find(arg, " ") + 1, Len(arg))

PowerKeyword == <<"P","O","W","E","R">>

\* cp_va_parse(conf, this, errh, cpKeywords, "POWER", cpUnsigned, "power",
\* &_power, 0): every argument must be "POWER <unsigned>"; values are
\* stored only if every argument parses, the last POWER given wins
RECURSIVE CpVaParse(_, _)
CpVaParse(conf, result) ==
    IF conf = <<>> THEN result
    ELSE IF ArgKeyword(Head(conf)) = PowerKeyword
            /\ CpUnsigned(ArgValue(Head(conf))).ok
    THEN CpVaParse(Tail(conf),
                   [ret |-> 0, set |-> TRUE,
                    value |-> CpUnsigned(ArgValue(Head(conf))).value])
    ELSE [ret |-> -1, set |-> FALSE, value |-> 0]

\* a configure that leaves _power alone when POWER is not given
ConfigurePower_KeepsOld(conf) ==
    LET r == CpVaParse(conf, [ret |-> 0, set |-> FALSE, value |-> 0])
    IN IF r.set THEN r.value ELSE power

\* SetTXPower::configure: _power = 0; then cp_va_parse stores POWER
ConfigurePower(conf) ==
    LET r == CpVaParse(conf, [ret |-> 0, set |-> FALSE, value |-> 0])
    IN IF r.set THEN r.value ELSE 0

\* SetTXPower::configure's return value
ConfigureReturn(conf) ==
    CpVaParse(conf, [ret |-> 0, set |-> FALSE, value |-> 0]).ret

\* the argument lists configure is called with
ConfigStrings ==
    { <<>>,
      << <<"P","O","W","E","R"," ","3">> >>,
      << <<"P","O","W","E","R"," ","1","2">> >>,
      << <<"P","O","W","E","R"," ","x">> >>,
      << <<"7">> >>,
      << <<"P","O","W","E","R"," ","3">>, <<"P","O","W","E","R"," ","4">> >> }

\* the texts written to the power handler
PowerTexts ==
    { <<"5">>, <<" ", "6", NL>>, <<"1", "2">>, <<"0">>, <<"-", "1">>,
      <<"x">>, <<>> }

\* a packet pointer: null, or the one packet handed to the element
NullPacket == 0
Packets == {1}

\* the wifi-extra annotation area of a packet (p->all_user_anno() seen as a
\* click_wifi_extra): its magic and power fields
Anno(magic, pw) == [magic |-> magic, power |-> pw]
NoAnno == Anno("unset", 0)
\* the annotations packets arrive with
IncomingAnnos == { NoAnno, Anno("WIFI_EXTRA_MAGIC", 9) }

\* one call made on the element: its argument list, its return value, the
\* text a read returned, the packet given and returned, and the returned
\* packet's annotation
TXCall(op, arg, ret, text, p_in, p_out, anno) ==
    [op |-> op, arg |-> arg, ret |-> ret, text |-> text,
     p_in |-> p_in, p_out |-> p_out, anno |-> anno]

\* String(unsigned): the decimal digits of n
RECURSIVE UnparseUnsigned(_)
UnparseUnsigned(n) ==
    IF n < 10 THEN <<DigitChars[n + 1]>>
    ELSE Append(UnparseUnsigned(n \div 10), DigitChars[(n % 10) + 1])

\* SetTXPower_read_param, H_POWER: String(td->_power) + "\n"
ReadParam(pw) == UnparseUnsigned(pw) \o <<NL>>

\* a write of the power handler that stores 0 when the text does not parse
WriteParam_StoresOnError(in_s, pw) ==
    LET m == CpUnsigned(CpUncomment(in_s))
    IN [ret |-> IF m.ok THEN 0 ELSE -1, power |-> m.value]

\* SetTXPower_write_param, H_POWER: the return value and the new _power
WriteParam(in_s, pw) ==
    LET m == CpUnsigned(CpUncomment(in_s))
    IN [ret |-> IF m.ok THEN 0 ELSE -1,
        power |-> IF m.ok THEN m.value ELSE pw]

\* a simple_action that leaves the magic field of the annotation alone
SimpleActionResult_KeepsMagic(p_in, anno, pw) ==
    IF p_in # NullPacket
    THEN [p_out |-> p_in, anno |-> Anno(anno.magic, pw)]
    ELSE [p_out |-> NullPacket, anno |-> NoAnno]

\* SetTXPower::simple_action(p_in): the packet returned and its annotation
SimpleActionResult(p_in, anno, pw) ==
    IF p_in # NullPacket
    THEN [p_out |-> p_in, anno |-> Anno("WIFI_EXTRA_MAGIC", pw)]
    ELSE [p_out |-> NullPacket, anno |-> NoAnno]

\* SetTXPower::configure(conf, errh)
Configure ==
    /\ Len(txlog) < MaxOps
    /\ \E conf \in ConfigStrings :
         /\ power' = ConfigurePower(conf)
         /\ txlog' = Append(txlog, TXCall("configure", conf,
                                          ConfigureReturn(conf), <<>>,
                                          NullPacket, NullPacket, NoAnno))
    /\ UNCHANGED <<mainpc, allow_reconfigure, quit_immediately, nthreads,
                   output_file, warnings, graph, resolution, ether, hotconfig,
                   routers, router, hotswap_router, started, taskinit,
                   tasksched, hookpc, hookact, nadjust, exit_value>>
    /\ UNCHANGED <<sigvars, hcallvars, wvars>>

\* SetTXPower_write_param(in_s, e, H_POWER, errh), the "power" write handler
WritePower ==
    /\ Len(txlog) < MaxOps
    /\ \E in_s \in PowerTexts :
         /\ power' = WriteParam(in_s, power).power
         /\ txlog' = Append(txlog, TXCall("write", <<in_s>>,
                                          WriteParam(in_s, power).ret, <<>>,
                                          NullPacket, NullPacket, NoAnno))
    /\ UNCHANGED <<mainpc, allow_reconfigure, quit_immediately, nthreads,
                   output_file, warnings, graph, resolution, ether, hotconfig,
                   routers, router, hotswap_router, started, taskinit,
                   tasksched, hookpc, hookact, nadjust, exit_value>>
    /\ UNCHANGED <<sigvars, hcallvars, wvars>>

\* SetTXPower_read_param(e, H_POWER), the "power" read handler
ReadPower ==
    /\ Len(txlog) < MaxOps
    /\ txlog' = Append(txlog, TXCall("read", <<>>, 0, ReadParam(power),
                                     NullPacket, NullPacket, NoAnno))
    /\ UNCHANGED <<mainpc, allow_reconfigure, quit_immediately, nthreads,
                   output_file, warnings, power, graph, resolution, ether,
                   hotconfig, routers, router, hotswap_router, started,
                   taskinit, tasksched, hookpc, hookact, nadjust, exit_value>>
    /\ UNCHANGED <<sigvars, hcallvars, wvars>>

\* SetTXPower::simple_action(p_in) on a null pointer or on a packet
SimpleAction ==
    /\ Len(txlog) < MaxOps
    /\ \E p_in \in {NullPacket} \cup Packets, anno \in IncomingAnnos :
         /\ (p_in = NullPacket => anno = NoAnno)
         /\ txlog' = Append(txlog,
                 TXCall("packet", <<>>, 0, <<>>, p_in,
                        SimpleActionResult(p_in, anno, power).p_out,
                        SimpleActionResult(p_in, anno, power).anno))
    /\ UNCHANGED <<mainpc, allow_reconfigure, quit_immediately, nthreads,
                   output_file, warnings, power, graph, resolution, ether,
                   hotconfig, routers, router, hotswap_router, started,
                   taskinit, tasksched, hookpc, hookact, nadjust, exit_value>>
    /\ UNCHANGED <<sigvars, hcallvars, wvars>>

\* no SetTXPower element is exercised
TXPowerIdle == power = 0 /\ txlog = <<>>

\* ------------------------------------------------------------------------
\* Port disciplines (LinkUnqueue, SetSourceRoute)
\* ------------------------------------------------------------------------

\* number of elements of an element graph
MaxElements == 3

PortClasses == {"LinkUnqueue", "SetSourceRoute"}

\* a LinkUnqueue that declares PUSH
Processing_LinkUnqueuePush(class) ==
    IF class = "LinkUnqueue"
    THEN [input |-> "push", output |-> "push"]
    ELSE [input |-> "agnostic", output |-> "agnostic"]

\* processing(): the declared discipline of the input and the output port.
\* LinkUnqueue declares PULL_TO_PUSH, SetSourceRoute declares AGNOSTIC.
Processing(class) ==
    IF class = "LinkUnqueue"
    THEN [input |-> "pull", output |-> "push"]
    ELSE [input |-> "agnostic", output |-> "agnostic"]

\* the discipline of a connection from an output declared o to an input
\* declared i
Merge(o, i) ==
    IF o = "agnostic" /\ i = "agnostic" THEN "ambiguous"
    ELSE IF o = "agnostic" THEN i
    ELSE IF i = "agnostic" THEN o
    ELSE IF o = i THEN o
    ELSE "invalid"

\* an element graph: the class of each element, and the connections
\* <<e, f>> from the output port of e to the input port of f
Graph(classes, conns) == [classes |-> classes, conns |-> conns]

EmptyGraph == Graph(<<>>, {})
NoResolution == [done |-> FALSE, ok |-> FALSE, conn |-> <<>>, errors |-> {}]

\* the discipline resolution gives connection c of graph g
ConnDiscipline(g, c) ==
    Merge(Processing(g.classes[c[1]]).output,
          Processing(g.classes[c[2]]).input)

\* the ports of g without a connection
Dangling_Outputs(g) ==
    {e \in 1..Len(g.classes) : ~\E c \in g.conns : c[1] = e}
Dangling_Inputs(g) ==
    {e \in 1..Len(g.classes) : ~\E c \in g.conns : c[2] = e}

\* a pull output connected to more than one input, not all of them
\* declared pull
BadFanout(g) ==
    {c \in g.conns :
        /\ ConnDiscipline(g, c) = "pull"
        /\ \E d \in g.conns : d[1] = c[1] /\ d # c
        /\ \E d \in g.conns :
              d[1] = c[1] /\ Processing(g.classes[d[2]]).input # "pull"}

\* resolution of the port disciplines of g: the discipline of every
\* connection, or the offending connections and ports
ResolveGraph(g) ==
    LET bad == {c \in g.conns :
                  ConnDiscipline(g, c) \in {"invalid", "ambiguous"}}
                \cup BadFanout(g)
        dangling == {<<e, 0>> : e \in Dangling_Outputs(g)}
                    \cup {<<0, e>> : e \in Dangling_Inputs(g)}
    IN [done |-> TRUE,
        ok |-> bad = {} /\ dangling = {},
        conn |-> IF bad = {} /\ dangling = {}
                 THEN [c \in g.conns |-> ConnDiscipline(g, c)]
                 ELSE <<>>,
        errors |-> bad \cup dangling]

\* installation resolves the port disciplines of the graph
Resolve ==
    /\ ~resolution.done
    /\ graph # EmptyGraph
    /\ resolution' = ResolveGraph(graph)
    /\ UNCHANGED <<mainpc, allow_reconfigure, quit_immediately, nthreads,
                   output_file, warnings, power, txlog, graph, ether, hotconfig,
                   routers, router, hotswap_router, started, taskinit,
                   tasksched, hookpc, hookact, nadjust, exit_value>>
    /\ UNCHANGED <<sigvars, hcallvars, wvars>>

\* no element graph is being resolved
PortsIdle == graph = EmptyGraph /\ resolution = NoResolution

\* ------------------------------------------------------------------------
\* EtherAddress (include/click/etheraddress.hh)
\* ------------------------------------------------------------------------

\* the byte values addresses are built from
ByteValues == {0, 1, 255}
\* the six bytes given to EtherAddress(const unsigned char *)
ByteStrings == [1..6 -> ByteValues]

\* the uint16_t two bytes in memory are read as, in the host's byte order
Word(b1, b2, big) == IF big THEN 256 * b1 + b2 ELSE b1 + 256 * b2
\* the bytes of a uint16_t in memory
WordBytes(w, big) ==
    IF big THEN <<w \div 256, w % 256>> ELSE <<w % 256, w \div 256>>

\* an EtherAddress object: uint16_t _data[3]; made and big record how the
\* object was constructed and the byte order of the host
Address(made, data, big) == [made |-> made, data |-> data, big |-> big]
NoAddress == Address("none", <<0, 0, 0>>, FALSE)

\* EtherAddress(): _data[0] = _data[1] = _data[2] = 0
DefaultData == <<0, 0, 0>>
\* EtherAddress(uint16_t m): _data[0] = _data[1] = _data[2] = m
FilledData(m) == <<m, m, m>>
\* EtherAddress::make_broadcast(): EtherAddress(0xFFFF)
BroadcastData == FilledData(65535)
\* EtherAddress(const unsigned char *d): memcpy(_data, d, 6)
CopiedData(d, big) ==
    <<Word(d[1], d[2], big), Word(d[3], d[4], big), Word(d[5], d[6], big)>>

\* EtherAddress::data(): the six bytes of _data
AddressBytes(a) ==
    WordBytes(a.data[1], a.big) \o WordBytes(a.data[2], a.big)
      \o WordBytes(a.data[3], a.big)

\* EtherAddress::operator bool
AddressBool(a) == a.data[1] # 0 \/ a.data[2] # 0 \/ a.data[3] # 0

\* an is_broadcast that looks at the low byte of every word only
IsBroadcast_LowBytes(a) ==
    /\ a.data[1] % 256 = 255
    /\ a.data[2] % 256 = 255
    /\ a.data[3] % 256 = 255

\* EtherAddress::is_broadcast
IsBroadcast(a) ==
    a.data[1] = 65535 /\ a.data[2] = 65535 /\ a.data[3] = 65535

\* operator==(const EtherAddress &, const EtherAddress &)
AddressEq(a, b) ==
    a.data[1] = b.data[1] /\ a.data[2] = b.data[2] /\ a.data[3] = b.data[3]

\* EtherAddress a;
EtherDefault ==
    /\ ether' = Address("default", DefaultData, ether.big)
    /\ UNCHANGED <<mainpc, allow_reconfigure, quit_immediately, nthreads,
                   output_file, warnings, power, txlog, graph, resolution,
                   hotconfig, routers, router, hotswap_router, started,
                   taskinit, tasksched, hookpc, hookact, nadjust, exit_value>>
    /\ UNCHANGED <<sigvars, hcallvars, wvars>>

\* EtherAddress a(d);
EtherFromData ==
    /\ \E d \in ByteStrings :
         ether' = Address("data", CopiedData(d, ether.big), ether.big)
    /\ UNCHANGED <<mainpc, allow_reconfigure, quit_immediately, nthreads,
                   output_file, warnings, power, txlog, graph, resolution,
                   hotconfig, routers, router, hotswap_router, started,
                   taskinit, tasksched, hookpc, hookact, nadjust, exit_value>>
    /\ UNCHANGED <<sigvars, hcallvars, wvars>>

\* EtherAddress a = EtherAddress::make_broadcast();
EtherMakeBroadcast ==
    /\ ether' = Address("broadcast", BroadcastData, ether.big)
    /\ UNCHANGED <<mainpc, allow_reconfigure, quit_immediately, nthreads,
                   output_file, warnings, power, txlog, graph, resolution,
                   hotconfig, routers, router, hotswap_router, started,
                   taskinit, tasksched, hookpc, hookact, nadjust, exit_value>>
    /\ UNCHANGED <<sigvars, hcallvars, wvars>>

\* no EtherAddress is exercised
EtherIdle == ether = NoAddress

\* ------------------------------------------------------------------------
\* The driver as a whole
\* ------------------------------------------------------------------------

\* the texts a read function may return
ResultChars == {"7", NL}
ResultStrings ==
    UNION {[1..n -> ResultChars] : n \in 0..MaxLen}

\* the state main starts from, for given command-line options
DriverInit(reconf, quit, threads, hs, xh, rv, ofile, warn) ==
    /\ mainpc = "parse"
    /\ output_file = ofile
    /\ warnings = warn
    /\ warned = <<>>
    /\ allow_reconfigure = reconf
    /\ quit_immediately = quit
    /\ nthreads = threads
    /\ hotconfig = FALSE
    /\ routers = [r \in RouterIds |-> NewRouter]
    /\ router = NoRouter
    /\ hotswap_router = NoRouter
    /\ started = FALSE
    /\ taskinit = FALSE
    /\ tasksched = FALSE
    /\ hookpc = "idle"
    /\ hookact = NoRouter
    /\ wpc = "idle"
    /\ wq = NoRouter
    /\ wret = "none"
    /\ sigdisp = [s \in Signals |-> "default"]
    /\ installs = 0
    /\ delivered = [s \in Signals |-> 0]
    /\ stops = [s \in Signals |-> 0]
    /\ nadjust = 0
    /\ exit_value = 0
    /\ handlers = hs
    /\ exit_handler = xh
    /\ rvalue = rv
    /\ out = <<>>
    /\ errors = <<>>
    /\ calls = <<>>

\* main's start for given options; no element is exercised on its own
InitMain(reconf, quit, threads, hs, xh, rv, ofile, warn) ==
    /\ DriverInit(reconf, quit, threads, hs, xh, rv, ofile, warn)
    /\ TXPowerIdle
    /\ PortsIdle
    /\ EtherIdle

\* the same without -o and with warnings left enabled
InitWith(reconf, quit, threads, hs, xh, rv) ==
    InitMain(reconf, quit, threads, hs, xh, rv, <<>>, TRUE)

Init ==
    \E reconf \in BOOLEAN, quit \in BOOLEAN, threads \in {1, 2} :
        InitWith(reconf, quit, threads, <<>>, <<>>, <<"7", NL>>)

Next ==
    \/ MainParse
    \/ MainOutput
    \/ MainRun
    \/ ElementStop
    \/ DriverExit
    \/ HookActivate
    \/ HookUnuse
    \/ HookAssign
    \/ HookUse
    \/ HookClear
    \/ WriteParse
    \/ WriteUnuse
    \/ WriteAssign
    \/ WriteResched
    \/ Signal
    \/ MainHandlers
    \/ MainExitHandler
    \/ MainExit

Spec == Init /\ [][Next]_vars

\* The driver's threads are scheduled fairly: main, the driver loop, a
\* running hotswap_hook and a running hotconfig_handler all go on.  Signals,
\* hotconfig writes and the elements' stop requests may or may not come.
FairSpec ==
    /\ Spec
    /\ WF_vars(MainParse) /\ WF_vars(MainOutput) /\ WF_vars(MainRun)
    /\ WF_vars(DriverExit)
    /\ WF_vars(HookActivate) /\ WF_vars(HookUnuse) /\ WF_vars(HookAssign)
    /\ WF_vars(HookUse) /\ WF_vars(HookClear)
    /\ WF_vars(WriteUnuse) /\ WF_vars(WriteAssign) /\ WF_vars(WriteResched)
    /\ WF_vars(MainHandlers) /\ WF_vars(MainExitHandler) /\ WF_vars(MainExit)

\* ------------------------------------------------------------------------
\* The driver run with -q and -h requests
\* ------------------------------------------------------------------------

\* number of -h options
MaxHandlers == 2

\* the element.handler requests given with -h
Requests ==
    { <<"x",".","v","a","l","u","e">>,
      <<"x",".","r","e","s","e","t">>,
      <<"x",".","r","a","w">>,
      <<"x",".","h","i","d">>,
      <<"x",".","n","o","p","e">>,
      <<"y",".","r","a","w">>,
      <<"c","o","n","f","i","g">>,
      <<"h","o","t","c","o","n","f","i","g">>,
      <<"C",".","v","a","l","u","e">>,
      <<"Z",".","r","a","w">>,
      <<"C",".","r","a","w">>,
      <<"Q",".","v","a","l","u","e">>,
      <<"?",".","r","e","s","e","t">>,
      <<"?",".","r","a","w">>,
      <<"[","x","q","]","*",".","r","a","w">> }

RequestLists == UNION {[1..n -> Requests] : n \in 0..MaxHandlers}

InitH ==
    \E reconf \in BOOLEAN, hs \in RequestLists, rv \in ResultStrings :
        InitWith(reconf, TRUE, 1, hs, <<>>, rv)

NextH ==
    \/ MainParse
    \/ MainOutput
    \/ MainRun
    \/ MainHandlers
    \/ MainExitHandler
    \/ MainExit

SpecH == InitH /\ [][NextH]_vars

\* ------------------------------------------------------------------------
\* Elements on their own
\* ------------------------------------------------------------------------

\* main has not started
DriverIdle == DriverInit(FALSE, FALSE, 1, <<>>, <<>>, <<>>, <<>>, TRUE)

\* a new SetTXPower element: the constructor leaves _power uninitialized
InitT ==
    /\ DriverIdle
    /\ PortsIdle
    /\ EtherIdle
    /\ power \in 0..MaxGarbage
    /\ txlog = <<>>

NextT ==
    \/ Configure
    \/ WritePower
    \/ ReadPower
    \/ SimpleAction

SpecT == InitT /\ [][NextT]_vars

\* an element graph before its port disciplines are resolved
InitP ==
    /\ DriverIdle
    /\ TXPowerIdle
    /\ EtherIdle
    /\ \E n \in 1..MaxElements :
         \E classes \in [1..n -> PortClasses] :
           \E conns \in SUBSET ((1..n) \X (1..n)) :
             graph = Graph(classes, conns)
    /\ resolution = NoResolution

NextP == Resolve

SpecP == InitP /\ [][NextP]_vars

\* EtherAddress objects on a host of either byte order
InitE ==
    /\ DriverIdle
    /\ TXPowerIdle
    /\ PortsIdle
    /\ \E big \in BOOLEAN : ether = Address("none", DefaultData, big)

NextE ==
    \/ EtherDefault
    \/ EtherFromData
    \/ EtherMakeBroadcast

SpecE == InitE /\ [][NextE]_vars

\* ------------------------------------------------------------------------
\* The driver run with -o, -w, -h and -x
\* ------------------------------------------------------------------------

\* the texts the read functions return in these runs
ExitTexts ==
    { <<>>, <<"7">>, <<"7", NL>>, <<"0">>, <<"1">>, <<"-", "1">>,
      <<"1", "2">>, <<" ", "3", NL>>,
      <<"t","r","u","e">>, <<"f","a","l","s","e", NL>>, <<"y","e","s">>,
      <<"n","o">>, <<"x">>, <<"7", "x">>, <<NL>> }

\* the handler given with -x, <<>> for none
ExitRequests ==
    { <<>>,
      <<"x",".","v","a","l","u","e">>,
      <<"x",".","r","e","s","e","t">>,
      <<"x",".","n","o","p","e">>,
      <<"z",".","v","a","l","u","e">>,
      <<"c","o","n","f","i","g">> }

\* the requests given with -h
ExitRequestLists ==
    { <<>>,
      << <<"x",".","v","a","l","u","e">> >>,
      << <<"x",".","n","o","p","e">> >>,
      << <<"y",".","v","a","l","u","e">>, <<"x",".","r","a","w">> >> }

\* the file names given with -o, <<>> for none
OutputFiles == { <<>>, StdoutName, <<"o">> }

InitX ==
    \E quit \in BOOLEAN, warn \in BOOLEAN, ofile \in OutputFiles,
       hs \in ExitRequestLists, xh \in ExitRequests, rv \in ExitTexts :
        InitMain(FALSE, quit, 1, hs, xh, rv, ofile, warn)

NextX ==
    \/ MainParse
    \/ MainOutput
    \/ MainRun
    \/ ElementStop
    \/ DriverExit
    \/ MainHandlers
    \/ MainExitHandler
    \/ MainExit

SpecX == InitX /\ [][NextX]_vars

TypeOK ==
    /\ mainpc \in MainPcs
    /\ router \in {NoRouter} \cup RouterIds
    /\ hotswap_router \in {NoRouter} \cup RouterIds
    /\ hookpc \in {"idle", "unuse", "assign", "use", "clear"}
    /\ wpc \in {"idle", "unuse", "assign", "resched"}
    /\ warnings \in BOOLEAN
    /\ exit_value \in Int

\* ------------------------------------------------------------------------
\* Properties
\* ------------------------------------------------------------------------

\* C1: a hotconfig write whose configuration fails to parse or to
\* initialize returns -EINVAL to the writer and leaves the current router
\* (the same router, with the same state), the pending slot and the
\* scheduling of the hot-swap task as they were.
C1_HotswapRejected ==
    [][(WriteParse /\ mainpc' = mainpc /\ wpc' = "idle")
        => /\ wret' = "-EINVAL"
           /\ router' = router
           /\ routers'[router] = routers[router]
           /\ hotswap_router' = hotswap_router
           /\ (hotswap_router # NoRouter
                 => routers'[hotswap_router] = routers[hotswap_router])
           /\ tasksched' = tasksched]_vars

\* a write has been rejected while an earlier one is pending
C1_Witness ==
    /\ mainpc = "driver"
    /\ wret = "-EINVAL"
    /\ hotswap_router # NoRouter
    /\ tasksched
    /\ routers[router].activated /\ ~routers[router].deleted

\* C2: when hotswap_hook has run, the old router has been released and torn
\* down, the router the hook activated is the current router, it is
\* activated and alive, and the pending slot is empty.
C2_SwapCompletes ==
    [][/\ HookAssign => (routers[router].deleted /\ router' = hookact)
       /\ HookClear => /\ router = hookact
                       /\ routers[router].activated
                       /\ ~routers[router].deleted
                       /\ hotswap_router' = NoRouter]_vars

\* C3: the router hotswap_hook makes the current router is the router this
\* run of the hook activated.
C3_SwapAtomic ==
    [][HookAssign => router' = hookact]_vars

\* C4: only a router whose initialize succeeded is ever activated; a router
\* that failed is deleted and is never the current router, the pending
\* router or a handler's result; when the initial configuration fails no
\* router is activated, the driver does not start and the exit status is 1.
C4_ActivatedOnlyInitialized ==
    /\ \A r \in RouterIds :
         /\ routers[r].activated => routers[r].initialized
         /\ (routers[r].created /\ ~routers[r].initialized)
              => /\ routers[r].deleted
                 /\ ~routers[r].activated
                 /\ r \notin {router, hotswap_router, wq}
    /\ (mainpc = "exited" /\ router = NoRouter)
         => /\ exit_value = 1
            /\ ~started
            /\ \A r \in RouterIds : ~routers[r].activated
    /\ (routers[1].created /\ ~routers[1].initialized)
         => (mainpc = "exited" /\ router = NoRouter)

\* a hot-swap configuration has failed under a running router
C4_Witness ==
    \E r, q \in RouterIds :
        /\ routers[r].created /\ ~routers[r].initialized
        /\ routers[q].activated /\ router = q

\* C5: once a signal has been handled as a graceful stop, the driver
\* eventually leaves its loop.
C5_StopLeadsToExit ==
    (\E sig \in Signals : stops[sig] > 0) ~> (mainpc # "driver")

\* C6: a signal delivered after a signal of the same kind was handled as a
\* graceful stop kills the process and is not handled as a stop again.
C6_SecondSignalKills ==
    [][\A sig \in Signals :
          (stops[sig] >= 1 /\ delivered'[sig] = delivered[sig] + 1)
            => (mainpc' = "killed" /\ stops' = stops)]_vars

\* the second signal of a kind has killed the process
C6_Witness ==
    \E sig \in Signals :
        mainpc = "killed" /\ stops[sig] = 1 /\ delivered[sig] = 2

\* C7: the signal handlers are installed once, when the first router is
\* installed, however many configurations are installed later.
C7_SignalsInstalledOnce ==
    installs = IF routers[1].created THEN 1 ELSE 0

\* two hot-swap configurations have been installed
C7_Witness ==
    /\ installs = 1
    /\ Cardinality({r \in RouterIds : routers[r].created}) >= 3

\* C8: the hotconfig handler and the initialized hot-swap task exist only
\* under allow_reconfigure; without it no other router is ever built,
\* pending or current.
C8_HotconfigOnlyIfAllowed ==
    /\ (hotconfig \/ taskinit) => allow_reconfigure
    /\ ~allow_reconfigure
         => /\ router \in {NoRouter, 1}
            /\ hotswap_router = NoRouter
            /\ \A r \in RouterIds \ {1} : ~routers[r].created

\* a driver without reconfiguration has run and returned
C8_Witness ==
    ~allow_reconfigure /\ started /\ mainpc = "exited"


\* the element and the handler name a request addresses, when its element
\* part is the exact name of an element or is left out (the root element)
RequestElement(req) ==
    IF Find(req, ".") = 0 THEN RootElement
    ELSE RouterFind(SubSeq(req, 1, Find(req, ".") - 1))
RequestHandlerName(req) ==
    IF Find(req, ".") = 0 THEN req
    ELSE SubSeq(req, Find(req, ".") + 1, Len(req))
RequestHandler(req) ==
    RouterHandler(RequestElement(req), RequestHandlerName(req))
ExactRequest(req) == RequestElement(req) # NoElement

\* the driver has called the read handlers: a single request, by exact
\* name, whose handler was called
OneHandlerCalled ==
    /\ mainpc = "exithandler"
    /\ Len(handlers) = 1
    /\ ExactRequest(handlers[1])
    /\ Len(calls) = 1

\* C9 as stated: the text printed for a non-raw handler always ends with a
\* newline; a result that ends with a newline, or that comes from a raw
\* handler, is printed unchanged.
C9_NewlineAlways ==
    OneHandlerCalled =>
        /\ ~RequestHandler(handlers[1]).raw
             => (out # <<>> /\ Last(out) = NL)
        /\ (RequestHandler(handlers[1]).raw
            \/ (rvalue # <<>> /\ Last(rvalue) = NL))
             => out = rvalue

\* C9: the text printed for a non-raw handler's non-empty result ends with
\* a newline and is the result or the result plus one newline; a result
\* that is empty, or ends with a newline, or comes from a raw handler, is
\* printed unchanged.
C9_NewlineUnlessRawOrEmpty ==
    OneHandlerCalled =>
        /\ (~RequestHandler(handlers[1]).raw /\ rvalue # <<>>)
             => (out # <<>> /\ Last(out) = NL)
        /\ out \in {rvalue, rvalue \o <<NL>>}
        /\ (RequestHandler(handlers[1]).raw
            \/ rvalue = <<>>
            \/ Last(rvalue) = NL)
             => out = rvalue

\* x.value returned "7" and "7\n" was printed
C9_Witness ==
    /\ OneHandlerCalled
    /\ handlers[1] = <<"x",".","v","a","l","u","e">>
    /\ rvalue = <<"7">>
    /\ out = <<"7", NL>>

\* a request whose handler is missing, hidden or write-only
BadRequest(req) == ~RequestHandler(req).read
BadRequestError(req) ==
    ErrorMsg(IF RequestHandler(req).write THEN "write handler"
             ELSE "no handler", req)
GoodRequestCall(req) == <<RequestElement(req), RequestHandlerName(req)>>

\* C10: for requests by exact element name (or to the root element), each
\* request whose handler does not exist or is not visible is reported as
\* "no '<request>' handler", each whose handler is write-only as a write
\* handler; no read function is called for them, a run of only such
\* requests prints nothing, and the exit status is then 1.
C10_MissingHandlerReported ==
    (/\ mainpc = "exithandler"
     /\ handlers # <<>>
     /\ \A i \in 1..Len(handlers) : ExactRequest(handlers[i]))
    => LET bad == SelectSeq(handlers, BadRequest)
           good == SelectSeq(handlers, LAMBDA r : ~BadRequest(r))
       IN /\ errors = [i \in 1..Len(bad) |-> BadRequestError(bad[i])]
          /\ calls = [i \in 1..Len(good) |-> GoodRequestCall(good[i])]
          /\ (good = <<>>) => (out = <<>>)
          /\ (bad # <<>>) => (exit_value = 1)

\* x.nope has been requested: the error is reported, the exit status is 1
C10_Witness ==
    /\ mainpc = "exithandler"
    /\ handlers = << <<"x",".","n","o","p","e">> >>
    /\ routers[router].nelements > 0
    /\ errors = <<ErrorMsg("no handler", <<"x",".","n","o","p","e">>)>>
    /\ out = <<>>
    /\ calls = <<>>
    /\ exit_value = 1

\* the exit handler's text, when the exit handler was read without error
ExitHandlerRead == HandlerCallRead(exit_handler).error = <<>>
ExitText == CpUncomment(HandlerCallRead(exit_handler).text)
ValueError ==
    ErrorMsg("exit handler value should be integer", exit_handler)

\* C11: when the exit handler was read without error, the exit status is
\* the integer its text parses as; if the text is no integer but a boolean,
\* 0 for true and 1 for false; if it is neither, the error "exit handler
\* value should be integer" is reported; and no error is reported in the
\* first two cases.
C11_ExitValuePrecedence ==
    [][(MainExitHandler /\ exit_handler # <<>> /\ mainpc' = "exit"
          /\ ExitHandlerRead)
        => IF CpInteger(ExitText).ok
           THEN exit_value' = CpInteger(ExitText).value /\ errors' = errors
           ELSE IF CpBool(ExitText).ok
           THEN /\ exit_value' = (IF CpBool(ExitText).value THEN 0 ELSE 1)
                /\ errors' = errors
           ELSE errors' = Append(errors, ValueError)]_vars

\* the exit handler returned "1", an integer and a boolean: the status is 1
C11_Witness ==
    /\ mainpc = "exit"
    /\ exit_handler = <<"x",".","v","a","l","u","e">>
    /\ routers[router].nelements > 0
    /\ rvalue = <<"1">>
    /\ exit_value = 1
    /\ errors = <<>>

\* the exit status the exit handler's text stands for
DerivedExitValue ==
    IF ~ExitHandlerRead THEN -1
    ELSE IF CpInteger(ExitText).ok THEN CpInteger(ExitText).value
    ELSE IF CpBool(ExitText).ok /\ CpBool(ExitText).value THEN 0
    ELSE IF CpBool(ExitText).ok THEN 1
    ELSE -1

\* C12: when an exit handler is given and the configuration was installed,
\* the exit status main returns is the value derived from the exit handler,
\* whatever exit_value was before and whatever errors were recorded before.
C12_ExitHandlerOverrides ==
    (mainpc \in {"exit", "exited"} /\ router # NoRouter
       /\ exit_handler # <<>>)
        => exit_value = DerivedExitValue

\* the output file could not be opened and a read handler failed, and the
\* exit handler's value 0 is the exit status
C12_Witness ==
    /\ mainpc = "exited"
    /\ exit_handler = <<"x",".","v","a","l","u","e">>
    /\ rvalue = <<"0">>
    /\ Len(errors) = 2
    /\ errors[1].kind = "fopen"
    /\ errors[2].kind = "no handler"
    /\ exit_value = 0

\* C13 as stated: the exit status is 0 on a clean run, 1 when the
\* configuration failed, 1 when a read handler request failed and no exit
\* handler is given, and 1 when the exit handler cannot be read or its
\* value is neither an integer nor a boolean.
C13_ExitStatus ==
    mainpc = "exited" =>
        /\ (router # NoRouter /\ errors = <<>> /\ exit_handler = <<>>)
             => exit_value = 0
        /\ router = NoRouter => exit_value = 1
        /\ (router # NoRouter /\ errors # <<>> /\ exit_handler = <<>>)
             => exit_value = 1
        /\ (router # NoRouter /\ exit_handler # <<>>
            /\ (~ExitHandlerRead
                \/ (~CpInteger(ExitText).ok /\ ~CpBool(ExitText).ok)))
             => exit_value = 1

\* a request that call_read_handlers answers with an error
RequestFails(req) == ~ExactRequest(req) \/ BadRequest(req)

\* the installed router is one the driver does not run
NotRun ==
    /\ router # NoRouter
    /\ quit_immediately \/ routers[router].nelements = 0

\* C20: in quit mode, or with a router without elements, no router is ever
\* activated, the driver loop is not entered and started stays false; the
\* read handlers requested are called all the same, and the exit status is
\* the exit handler's value if one is given, else 1 if a request failed;
\* the warning is reported exactly when the router is empty, quit mode is
\* off and warnings are enabled.
C20_QuitOrEmptyNeverRuns ==
    /\ NotRun
         => /\ ~started
            /\ mainpc # "driver"
            /\ \A r \in RouterIds : ~routers[r].activated
    /\ (NotRun /\ mainpc \in {"exithandler", "exit", "exited"})
         => /\ \A i \in 1..Len(handlers) :
                  (ExactRequest(handlers[i]) /\ ~BadRequest(handlers[i]))
                    => \E k \in 1..Len(calls) :
                          calls[k] = GoodRequestCall(handlers[i])
            /\ (\E i \in 1..Len(handlers) : RequestFails(handlers[i]))
                  => \E k \in 1..Len(errors) :
                        errors[k].kind \in {"no handler", "no element"}
    /\ (NotRun /\ mainpc \in {"exit", "exited"})
         => /\ exit_handler # <<>> => exit_value = DerivedExitValue
            /\ (exit_handler = <<>>
                /\ \E i \in 1..Len(handlers) : RequestFails(handlers[i]))
                  => exit_value = 1
            /\ exit_handler # <<>> /\ ExitHandlerRead
                  => Last(calls) = <<"exit", exit_handler>>
    /\ (router # NoRouter /\ mainpc \notin {"parse", "output", "run"})
         => (warned # <<>>
              <=> (routers[router].nelements = 0 /\ ~quit_immediately
                   /\ warnings))
    /\ mainpc \in {"parse", "output", "run"} => warned = <<>>

\* quit mode with a router that has elements: not run, no warning, the
\* read handler and the exit handler called
C20_Witness ==
    /\ mainpc = "exited"
    /\ quit_immediately
    /\ ~started
    /\ handlers = << <<"x",".","v","a","l","u","e">> >>
    /\ exit_handler = <<"x",".","v","a","l","u","e">>
    /\ Len(calls) = 2
    /\ rvalue = <<"7">>
    /\ exit_value = 7
    /\ warned = <<>>

\* a single request whose element part names no instance, after the read
\* handlers have been called
OneExpandedRequest ==
    /\ mainpc = "exithandler"
    /\ Len(handlers) = 1
    /\ Find(handlers[1], ".") > 0
    /\ ~ExactRequest(handlers[1])

\* the element part of a request
RequestPattern(req) == SubSeq(req, 1, Find(req, ".") - 1)
HasWildcard(pat) ==
    \E k \in 1..Len(pat) : pat[k] = "?" \/ pat[k] = "*" \/ pat[k] = "["

\* the elements the element part of a request selects
Selected(req) ==
    {i \in ElementIndexes :
        IF HasWildcard(RequestPattern(req))
        THEN GlobMatch(Elements[i].name, RequestPattern(req))
        ELSE Elements[i].class = RequestPattern(req)}

\* C14: for a request whose element part names no instance, every read
\* function called is the requested handler of a selected element (selected
\* by glob match of its name if the element part has '?', '*' or '[', by
\* its class otherwise), the calls are in strictly ascending element-index
\* order (so each element at most once), and every selected element that
\* has the handler read-visible is called.
C14_ExpansionOrder ==
    OneExpandedRequest =>
        LET req == handlers[1]
        IN /\ \A k \in 1..Len(calls) :
                 /\ calls[k][1] \in Selected(req)
                 /\ calls[k][2] = RequestHandlerName(req)
           /\ \A k \in 1..(Len(calls) - 1) : calls[k][1] < calls[k + 1][1]
           /\ \A i \in Selected(req) :
                 RouterHandler(i, RequestHandlerName(req)).read
                   => \E k \in 1..Len(calls) : calls[k][1] = i

\* "[xq]*.raw" selected x and q1 by name and called them in that order
C14_Witness ==
    /\ OneExpandedRequest
    /\ handlers[1] = <<"[","x","q","]","*",".","r","a","w">>
    /\ calls = << <<1, <<"r","a","w">> >>, <<3, <<"r","a","w">> >> >>

\* C19 as stated: when the element part of a request selects at least one
\* element but no selected element has the handler read-visible, an error
\* is reported and the exit status becomes 1.
C19_ExpandedNotFoundReported ==
    (/\ OneExpandedRequest
     /\ Selected(handlers[1]) # {}
     /\ \A i \in Selected(handlers[1]) :
           ~RouterHandler(i, RequestHandlerName(handlers[1])).read)
    => (errors # <<>> /\ exit_value = 1)

Released(r) == routers[r].deleted \/ routers[r].uses < 0

RECURSIVE GivenPower(_, _)
GivenPower(conf, sofar) ==
    IF conf = <<>> THEN sofar
    ELSE GivenPower(Tail(conf),
                    DecimalValue(SubSeq(Head(conf), 7, Len(Head(conf))), 0))
\* the argument lists that are well formed
GoodConfig(conf) ==
    \A k \in 1..Len(conf) :
        /\ Len(conf[k]) > 6
        /\ SubSeq(conf[k], 1, 6) = <<"P","O","W","E","R"," ">>
        /\ \A j \in 7..Len(conf[k]) : IsDigit(conf[k][j])

\* C17: a call of SetTXPower::configure leaves _power at the POWER of its
\* argument list if the list is well formed and gives one, else at 0,
\* whatever _power held before (uninitialized, configured or written
\* through the power handler); a call that repeats the argument list of the
\* call before it changes nothing and returns the same.
C17_ConfigureIdempotent ==
    [][Configure
        => LET call == Last(txlog')
           IN /\ power' = IF GoodConfig(call.arg)
                           THEN GivenPower(call.arg, 0) ELSE 0
              /\ call.ret = IF GoodConfig(call.arg) THEN 0 ELSE -1
              /\ (txlog # <<>> /\ Last(txlog).op = "configure"
                  /\ Last(txlog).arg = call.arg)
                   => (power' = power /\ call.ret = Last(txlog).ret)]_vars

\* power was written as 5, then configure was called twice without POWER
C17_Witness ==
    /\ Len(txlog) = 3
    /\ txlog[1].op = "write" /\ txlog[1].arg = << <<"5">> >>
    /\ txlog[1].ret = 0
    /\ txlog[2].op = "configure" /\ txlog[2].arg = <<>>
    /\ txlog[3] = txlog[2]
    /\ power = 0

\* the disciplines of the connections of one port after resolution
OutputDisciplines(e) ==
    {resolution.conn[c] : c \in {d \in graph.conns : d[1] = e}}
InputDisciplines(e) ==
    {resolution.conn[c] : c \in {d \in graph.conns : d[2] = e}}
\* a port's effective discipline: what it declares, or, if it is agnostic,
\* what its connections give it
Effective(declared, given) ==
    IF declared = "agnostic" THEN given ELSE given \cup {declared}

EffectiveOutput(e) ==
    Effective(Processing(graph.classes[e]).output, OutputDisciplines(e))
EffectiveInput(e) ==
    Effective(Processing(graph.classes[e]).input, InputDisciplines(e))

\* C16: when resolution has succeeded every port has exactly one effective
\* discipline, push or pull, and for every connection the discipline of
\* its output port is that of its input port; a graph with a push output
\* connected to a pull input (LinkUnqueue to LinkUnqueue), or an agnostic
\* output to an agnostic input (SetSourceRoute to SetSourceRoute), fails
\* to resolve.
C16_PortDisciplines ==
    resolution.done =>
      /\ resolution.ok =>
           /\ \A e \in 1..Len(graph.classes) :
                /\ Cardinality(EffectiveOutput(e)) = 1
                /\ EffectiveOutput(e) \subseteq {"push", "pull"}
                /\ Cardinality(EffectiveInput(e)) = 1
                /\ EffectiveInput(e) \subseteq {"push", "pull"}
           /\ \A c \in graph.conns :
                EffectiveOutput(c[1]) = EffectiveInput(c[2])
      /\ (\E c \in graph.conns :
             graph.classes[c[1]] = graph.classes[c[2]])
           => ~resolution.ok

\* LinkUnqueue -> SetSourceRoute -> the same LinkUnqueue resolves: the
\* agnostic input is push and the agnostic output is pull
C16_Witness ==
    /\ resolution.done /\ resolution.ok
    /\ graph.classes = <<"LinkUnqueue", "SetSourceRoute">>
    /\ graph.conns = {<<1, 2>>, <<2, 1>>}
    /\ resolution.conn[<<1, 2>>] = "push"
    /\ resolution.conn[<<2, 1>>] = "pull"

\* the digits of a text
Digits(s) == SelectSeq(s, IsDigit)
\* the texts that are an unsigned integer: digits, in one run, with nothing
\* but whitespace before and after
IsUnsignedText(s) ==
    \E i \in 1..Len(s), j \in 1..Len(s) :
        /\ i <= j
        /\ \A k \in 1..Len(s) :
             IF i <= k /\ k <= j THEN IsDigit(s[k]) ELSE s[k] \in Whitespace
\* the calls of a log that set _power: configure, and the writes that
\* returned success
SetsPower(call) ==
    call.op = "configure" \/ (call.op = "write" /\ call.ret = 0)
\* the last call of a log that set _power, 0 if none
LastSet(log) ==
    IF \E k \in 1..Len(log) : SetsPower(log[k])
    THEN CHOOSE k \in 1..Len(log) :
           /\ SetsPower(log[k])
           /\ \A j \in (k + 1)..Len(log) : ~SetsPower(log[j])
    ELSE 0

\* C21: a write of the power handler with a text that is not an unsigned
\* integer returns an error and leaves _power as it was; a write of an
\* unsigned integer v returns 0, and a read of the power handler that
\* follows it (with no configure and no other successful write in between)
\* returns the digits of v and a newline.
C21_PowerHandler ==
    [][/\ WritePower
            => LET call == Last(txlog')
               IN IF IsUnsignedText(call.arg[1])
                  THEN call.ret = 0
                  ELSE call.ret < 0 /\ power' = power
       /\ (ReadPower /\ LastSet(txlog) # 0
             /\ txlog[LastSet(txlog)].op = "write")
            => Last(txlog').text
                 = Digits(txlog[LastSet(txlog)].arg[1]) \o <<NL>>]_vars

\* 12 was written, then -1 was rejected, and the read returned 12 and a
\* newline
C21_Witness ==
    /\ Len(txlog) = 3
    /\ txlog[1].op = "write" /\ txlog[1].arg = << <<"1", "2">> >>
    /\ txlog[1].ret = 0
    /\ txlog[2].op = "write" /\ txlog[2].arg = << <<"-", "1">> >>
    /\ txlog[2].ret = -1
    /\ txlog[3].op = "read" /\ txlog[3].text = <<"1", "2", NL>>
    /\ power = 12

C23_Broadcast ==
    ether.made # "none" =>
      /\ IsBroadcast(ether)
           <=> AddressEq(ether, Address("broadcast", BroadcastData, ether.big))
      /\ IsBroadcast(ether)
           <=> \A i \in 1..6 : AddressBytes(ether)[i] = 255
      /\ ~AddressBool(ether)
           <=> AddressEq(ether, Address("default", DefaultData, ether.big))
      /\ ether.made = "default"
           => /\ \A i \in 1..6 : AddressBytes(ether)[i] = 0
              /\ ~IsBroadcast(ether)
              /\ ~AddressBool(ether)

\* an address copied from six FF bytes is broadcast
C23_Witness ==
    /\ ether.made = "data"
    /\ \A i \in 1..6 : AddressBytes(ether)[i] = 255
    /\ IsBroadcast(ether)

\* C24: the router registered as hotswap router on the router the hot-swap
\* task activates is the current router, which this swap replaces, and it
\* has not been released; and when parse_configuration registers a hotswap
\* router on a new router, that router is the current router and has not
\* been released.
C24_PredecessorIsReplaced ==
    [][/\ (HookActivate /\ mainpc' = mainpc)
            => /\ routers[hotswap_router].hotswap = router
               /\ ~Released(router)
       /\ (WriteParse /\ mainpc' = mainpc /\ wpc' = "unuse")
            => /\ routers'[wq'].hotswap = router
               /\ ~Released(router)]_vars

\* C25: if the current router's runcount is STOP_RUNCOUNT while a hot-swap
\* is pending or in progress, the driver eventually leaves its loop.
C25_StopSurvivesSwap ==
    (/\ mainpc = "driver"
     /\ \E sig \in Signals : stops[sig] > 0
     /\ router # NoRouter
     /\ routers[router].runcount = STOP_RUNCOUNT
     /\ hotswap_router # NoRouter \/ hookpc # "idle")
      ~> (mainpc # "driver")

\* C26: whenever the hot-swap task starts to run, hotswap_router holds a
\* router that was initialized and has been neither activated nor released.
C26_TaskFindsPendingRouter ==
    [][HookActivate
        => /\ hotswap_router # NoRouter
           /\ routers[hotswap_router].initialized
           /\ ~routers[hotswap_router].activated
           /\ ~Released(hotswap_router)]_vars

====
